---- MODULE Spec2Model ----
(***************************************************************************)
(* A model of the execution core of the build agent:                       *)
(*   - buildbox/job.go: Job.Run, the job-run state machine with its        *)
(*     periodic status-push callback and mid-run cancellation;             *)
(*   - buildkite/artifact_uploader.go: ArtifactUploader.Upload, collect,   *)
(*     build and upload (transport choice, batch registration, fan-out     *)
(*     through the worker pool, error aggregation).                        *)
(* Strings are sequences of one-character strings, so that the empty       *)
(* string, prefixes, splitting and trimming are computed, not assumed.     *)
(***************************************************************************)
EXTENDS Integers, Sequences, FiniteSets, TLC

VARIABLES
    \* ---- buildbox/job.go ----
    jpc,        \* position of Job.Run
    j,          \* the Job struct (State, Output, ExitStatus, StartedAt, FinishedAt)
    now,        \* the wall clock read by time.Now()
    proc,       \* the Process supervised by RunScript
    cbpc,       \* position of the callback: "idle" or "pushed"
    updatedJob, \* the job returned by the callback's JobUpdate
    tick,       \* number of callback invocations so far
    pushLog,    \* every JobUpdate request sent, in order, with its outcome
    killTicks,  \* the ticks on which process.Kill() was invoked
    killCount,  \* number of invocations of process.Kill()
    cancelTicks, \* the ticks whose JobUpdate response had State "canceled"
    writes,      \* how often Run assigned StartedAt, FinishedAt and ExitStatus
    \* ---- buildkite/artifact_uploader.go ----
    Paths,       \* ArtifactUploader.Paths
    Destination, \* ArtifactUploader.Destination
    fault,       \* the I/O call that fails during collection, if any
    upc,         \* position of ArtifactUploader.Upload / upload
    result,      \* what Upload handed to its caller
    artifacts,   \* the manifest: a sequence of Artifact structs
    uploader,    \* the transport chosen: "none", "S3" or "Form"
    setupCalls,  \* number of calls of uploader.Setup
    setupOk,     \* outcome of uploader.Setup: "none", "ok" or "failed"
    urlSet,      \* the artifacts whose URL was assigned from the uploader
    createLog,   \* every call of ArtifactBatchCreator.Create, with its manifest
    spawned,     \* number of tasks handed to p.Spawn so far
    tpc,         \* position of each spawned task
    lock,        \* the task holding the pool's lock, or 0
    errors,      \* the shared error list of upload
    uploadCalls, \* per artifact: number of calls of uploader.Upload
    uploadOk,    \* per artifact: outcome of uploader.Upload
    updLog       \* per artifact: the artifact.Update requests sent, in order

jobVars == <<jpc, j, now, proc, cbpc, updatedJob, tick, pushLog, killTicks,
             killCount, cancelTicks, writes>>

upVars == <<Paths, Destination, fault, upc, result, artifacts, uploader, setupCalls, setupOk,
           urlSet, createLog, spawned, tpc, lock, errors, uploadCalls, uploadOk,
           updLog>>

vars == <<jobVars, upVars>>

\* ------------------------------------------------------------------ bounds

MaxTicks == 3
MaxOutput == 2

\* ----------------------------------------------------------------- strings

EmptyStr == <<>>

Digit(d) == CASE d = 0 -> "0" [] d = 1 -> "1" [] d = 2 -> "2" [] d = 3 -> "3"
              [] d = 4 -> "4" [] d = 5 -> "5" [] d = 6 -> "6" [] d = 7 -> "7"
              [] d = 8 -> "8" [] d = 9 -> "9"

RECURSIVE FormatNat(_)
FormatNat(n) == IF n < 10 THEN <<Digit(n)>>
                ELSE FormatNat(n \div 10) \o <<Digit(n % 10)>>

\* fmt.Sprintf("%d", n)
FormatInt(n) == IF n < 0 THEN <<"-">> \o FormatNat(-n) ELSE FormatNat(n)

\* time.Now().Format(time.RFC3339): a non-empty rendering of the clock
FormatTime(t) == <<"T">> \o FormatNat(t)

\* fmt.Sprintf("%s", err) for the error RunScript returns
LaunchErrorText == <<"e", "r", "r">>

\* ------------------------------------------------------------ buildbox/job

JobFields == {"State", "Output", "ExitStatus", "StartedAt", "FinishedAt"}
OmitEmpty == {"Output", "ExitStatus", "StartedAt", "FinishedAt"}

\* The Job struct as JobNext delivers it
NewJob == [State |-> <<"s">>, Output |-> EmptyStr, ExitStatus |-> EmptyStr,
           StartedAt |-> EmptyStr, FinishedAt |-> EmptyStr]

\* Variant of Marshal: no field is left out.
MarshalAllFields(job) == [f \in JobFields |-> job[f]]

\* The request body of JobUpdate: fields tagged omitempty are left out when
\* they hold the empty string.
Marshal(job) ==
    [f \in {g \in JobFields : g \notin OmitEmpty \/ job[g] # EmptyStr} |-> job[f]]

ServerStates == {<<"r">>, <<"c">>}
Canceled == <<"c">>

\* Exit statuses of a process that ended by itself, and of a killed one
NaturalExits == {0, 1}
KilledExit == -1

NoProcess == [status |-> "none", Output |-> EmptyStr, ExitStatus |-> 0,
              killed |-> FALSE]

NoWrites == [StartedAt |-> 0, FinishedAt |-> 0, ExitStatus |-> 0]

\* client.JobUpdate(j): one request is sent, it fails or it is answered
Pushed(kind, job, ok) ==
    Append(pushLog, [kind |-> kind, ok |-> ok, body |-> Marshal(job), tick |-> tick])

JobInit ==
    /\ jpc = "Fetched"
    /\ j = NewJob
    /\ now \in {1, 9}
    /\ proc = NoProcess
    /\ cbpc = "idle"
    /\ updatedJob = NewJob
    /\ tick = 0
    /\ pushLog = <<>>
    /\ killTicks = {}
    /\ killCount = 0
    /\ cancelTicks = {}
    /\ writes = NoWrites
    \* the uploader is not running
    /\ Paths = <<>> /\ Destination = <<>> /\ fault = "none" /\ upc = "start"
    /\ result = "none" /\ artifacts = <<>> /\ uploader = "none" /\ setupCalls = 0 /\ setupOk = "none"
    /\ urlSet = {} /\ createLog = <<>> /\ spawned = 0 /\ tpc = <<>> /\ lock = 0
    /\ errors = <<>> /\ uploadCalls = <<>> /\ uploadOk = <<>> /\ updLog = <<>>

\* Variant of StartJob: a failed start push ends the run.
StartJobAbortOnError(ok) ==
    /\ jpc = "Fetched"
    /\ j' = [j EXCEPT !.StartedAt = FormatTime(now)]
    /\ pushLog' = Pushed("start", j', ok)
    /\ jpc' = IF ok THEN "Started" ELSE "Done"
    /\ UNCHANGED <<now, proc, cbpc, updatedJob, tick, killTicks, killCount, cancelTicks>>
    /\ writes' = [writes EXCEPT !.StartedAt = @ + 1]
    /\ UNCHANGED upVars

\* Lines 59-61: stamp StartedAt, push; the result of the push is dropped.
StartJob(ok) ==
    /\ jpc = "Fetched"
    /\ j' = [j EXCEPT !.StartedAt = FormatTime(now)]
    /\ pushLog' = Pushed("start", j', ok)
    /\ jpc' = "Started"
    /\ UNCHANGED <<now, proc, cbpc, updatedJob, tick, killTicks, killCount, cancelTicks>>
    /\ writes' = [writes EXCEPT !.StartedAt = @ + 1]
    /\ UNCHANGED upVars

\* Line 83, RunScript: the process is spawned, or the spawn fails before any
\* callback fires.
Launch(ok) ==
    /\ jpc = "Started"
    /\ IF ok
       THEN /\ proc' = [NoProcess EXCEPT !.status = "running"]
            /\ jpc' = "Running"
       ELSE /\ proc' = [NoProcess EXCEPT !.status = "failed"]
            /\ jpc' = "Finalizing"
    /\ UNCHANGED <<j, now, cbpc, updatedJob, tick, pushLog, killTicks, killCount,
                   cancelTicks>>
    /\ UNCHANGED writes
    /\ UNCHANGED upVars

\* The child process writes output while it runs.
ProcWrite ==
    /\ jpc = "Running"
    /\ proc.status = "running"
    /\ Len(proc.Output) < MaxOutput
    /\ proc' = [proc EXCEPT !.Output = Append(@, "o")]
    /\ UNCHANGED <<jpc, j, now, cbpc, updatedJob, tick, pushLog, killTicks, killCount,
                   cancelTicks>>
    /\ UNCHANGED writes
    /\ UNCHANGED upVars

\* The child process ends: by itself, or because it was killed.
ProcExit(code) ==
    /\ jpc = "Running"
    /\ proc.status = "running"
    /\ code \in NaturalExits \/ (proc.killed /\ code = KilledExit)
    /\ proc' = [proc EXCEPT !.status = "exited", !.ExitStatus = code]
    /\ UNCHANGED <<jpc, j, now, cbpc, updatedJob, tick, pushLog, killTicks, killCount,
                   cancelTicks>>
    /\ UNCHANGED writes
    /\ UNCHANGED upVars

\* Variant of CallbackPush: every tick also writes the exit status.
CallbackPushWritesExitStatus(ok, state) ==
    /\ jpc = "Running"
    /\ proc.status = "running"
    /\ cbpc = "idle"
    /\ tick < MaxTicks
    /\ tick' = tick + 1
    /\ now' = now + 1
    /\ j' = [j EXCEPT !.Output = proc.Output,
                      !.ExitStatus = FormatInt(proc.ExitStatus)]
    /\ pushLog' = Append(pushLog, [kind |-> "tick", ok |-> ok, body |-> Marshal(j'),
                                   tick |-> tick'])
    /\ updatedJob' = [NewJob EXCEPT !.State = IF ok THEN state ELSE EmptyStr]
    /\ cancelTicks' = IF ok /\ state = Canceled THEN cancelTicks \cup {tick'}
                      ELSE cancelTicks
    /\ IF ok THEN cbpc' = "pushed" /\ jpc' = jpc
             ELSE cbpc' = "idle" /\ jpc' = "Fatal"
    /\ UNCHANGED <<proc, killTicks, killCount>>
    /\ writes' = [writes EXCEPT !.ExitStatus = @ + 1]
    /\ UNCHANGED upVars

\* Variant of CallbackPush: a failed push is dropped and the callback goes on.
CallbackPushIgnoreError(ok, state) ==
    /\ jpc = "Running"
    /\ proc.status = "running"
    /\ cbpc = "idle"
    /\ tick < MaxTicks
    /\ tick' = tick + 1
    /\ now' = now + 1
    /\ j' = [j EXCEPT !.Output = proc.Output]
    /\ pushLog' = Append(pushLog, [kind |-> "tick", ok |-> ok, body |-> Marshal(j'),
                                   tick |-> tick'])
    /\ updatedJob' = [NewJob EXCEPT !.State = IF ok THEN state ELSE EmptyStr]
    /\ cancelTicks' = IF ok /\ state = Canceled THEN cancelTicks \cup {tick'}
                      ELSE cancelTicks
    /\ cbpc' = "pushed"
    /\ jpc' = jpc
    /\ UNCHANGED <<proc, killTicks, killCount>>
    /\ UNCHANGED writes
    /\ UNCHANGED upVars

\* Lines 65-72: a tick of the callback. Output is copied from the snapshot of
\* the process, the update is pushed, and a failed push ends the agent
\* (log.Fatal).
CallbackPush(ok, state) ==
    /\ jpc = "Running"
    /\ proc.status = "running"
    /\ cbpc = "idle"
    /\ tick < MaxTicks
    /\ tick' = tick + 1
    /\ now' = now + 1
    /\ j' = [j EXCEPT !.Output = proc.Output]
    /\ pushLog' = Append(pushLog, [kind |-> "tick", ok |-> ok, body |-> Marshal(j'),
                                   tick |-> tick'])
    /\ updatedJob' = [NewJob EXCEPT !.State = IF ok THEN state ELSE EmptyStr]
    /\ cancelTicks' = IF ok /\ state = Canceled THEN cancelTicks \cup {tick'}
                      ELSE cancelTicks
    /\ IF ok THEN cbpc' = "pushed" /\ jpc' = jpc
             ELSE cbpc' = "idle" /\ jpc' = "Fatal"
    /\ UNCHANGED <<proc, killTicks, killCount>>
    /\ UNCHANGED writes
    /\ UNCHANGED upVars

\* process.Kill(): the kill request reaches the process, which is expected to
\* exit; when it does is up to the process.
Kill(p) == [p EXCEPT !.killed = TRUE]

\* Variants of CallbackCheck: one looks at the job's own State instead of the
\* response, the other invokes Kill whatever the response says.
CallbackCheckOwnState ==
    /\ jpc = "Running"
    /\ cbpc = "pushed"
    /\ cbpc' = "idle"
    /\ IF j.State = Canceled
       THEN /\ proc' = Kill(proc)
            /\ killTicks' = killTicks \cup {tick}
            /\ killCount' = killCount + 1
       ELSE UNCHANGED <<proc, killTicks, killCount>>
    /\ UNCHANGED <<jpc, j, now, updatedJob, tick, pushLog, cancelTicks>>
    /\ UNCHANGED writes
    /\ UNCHANGED upVars

CallbackCheckAlways ==
    /\ jpc = "Running"
    /\ cbpc = "pushed"
    /\ cbpc' = "idle"
    /\ proc' = Kill(proc)
    /\ killTicks' = killTicks \cup {tick}
    /\ killCount' = killCount + 1
    /\ UNCHANGED <<jpc, j, now, updatedJob, tick, pushLog, cancelTicks>>
    /\ UNCHANGED writes
    /\ UNCHANGED upVars

\* Lines 74-78: the rest of the tick. Kill is invoked when the response says
\* the job was canceled.
CallbackCheck ==
    /\ jpc = "Running"
    /\ cbpc = "pushed"
    /\ cbpc' = "idle"
    /\ IF updatedJob.State = Canceled
       THEN /\ proc' = Kill(proc)
            /\ killTicks' = killTicks \cup {tick}
            /\ killCount' = killCount + 1
       ELSE UNCHANGED <<proc, killTicks, killCount>>
    /\ UNCHANGED <<jpc, j, now, updatedJob, tick, pushLog, cancelTicks>>
    /\ UNCHANGED writes
    /\ UNCHANGED upVars

\* RunScript returns once the process has exited and no callback is in flight.
RunScriptReturn ==
    /\ jpc = "Running"
    /\ proc.status = "exited"
    /\ cbpc = "idle"
    /\ jpc' = "Finalizing"
    /\ UNCHANGED <<j, now, proc, cbpc, updatedJob, tick, pushLog, killTicks, killCount,
                   cancelTicks>>
    /\ UNCHANGED writes
    /\ UNCHANGED upVars

\* Variant of Finalize: a failed final push makes Run fail.
FinalizeReturnsPushError(ok, nilProcess) ==
    /\ jpc = "Finalizing"
    /\ IF proc.status = "failed" /\ nilProcess
       THEN /\ j' = [j EXCEPT !.Output = LaunchErrorText,
                              !.FinishedAt = FormatTime(now)]
            /\ jpc' = "Panic"
            /\ UNCHANGED pushLog
       ELSE /\ j' = [j EXCEPT !.Output = IF proc.status = "failed"
                                         THEN LaunchErrorText ELSE proc.Output,
                              !.FinishedAt = FormatTime(now),
                              !.ExitStatus = FormatInt(proc.ExitStatus)]
            /\ pushLog' = Pushed("final", j', ok)
            /\ jpc' = IF ok THEN "Done" ELSE "Failed"
    /\ UNCHANGED <<now, proc, cbpc, updatedJob, tick, killTicks, killCount, cancelTicks>>
    /\ writes' = [writes EXCEPT !.FinishedAt = @ + 1,
                                !.ExitStatus = IF jpc' = "Panic" THEN @ ELSE @ + 1]
    /\ UNCHANGED upVars

\* Lines 85-107: final output, FinishedAt, ExitStatus and the final push, whose
\* result is dropped. After a failed launch RunScript hands back either no
\* process at all (line 100 then dereferences nil and the agent panics) or a
\* process whose ExitStatus is the zero value.
Finalize(ok, nilProcess) ==
    /\ jpc = "Finalizing"
    /\ IF proc.status = "failed" /\ nilProcess
       THEN /\ j' = [j EXCEPT !.Output = LaunchErrorText,
                              !.FinishedAt = FormatTime(now)]
            /\ jpc' = "Panic"
            /\ UNCHANGED pushLog
       ELSE /\ j' = [j EXCEPT !.Output = IF proc.status = "failed"
                                         THEN LaunchErrorText ELSE proc.Output,
                              !.FinishedAt = FormatTime(now),
                              !.ExitStatus = FormatInt(proc.ExitStatus)]
            /\ pushLog' = Pushed("final", j', ok)
            /\ jpc' = "Done"
    /\ UNCHANGED <<now, proc, cbpc, updatedJob, tick, killTicks, killCount, cancelTicks>>
    /\ writes' = [writes EXCEPT !.FinishedAt = @ + 1,
                                !.ExitStatus = IF jpc' = "Panic" THEN @ ELSE @ + 1]
    /\ UNCHANGED upVars

JobNext ==
    \/ \E ok \in BOOLEAN : StartJob(ok)
    \/ \E ok \in BOOLEAN : Launch(ok)
    \/ ProcWrite
    \/ \E code \in NaturalExits \cup {KilledExit} : ProcExit(code)
    \/ \E ok \in BOOLEAN, state \in ServerStates : CallbackPush(ok, state)
    \/ CallbackCheck
    \/ RunScriptReturn
    \/ \E ok \in BOOLEAN, nilProcess \in BOOLEAN : Finalize(ok, nilProcess)


\* ------------------------------------------------- string helpers (Go)

\* strings.HasPrefix
HasPrefix(s, prefix) ==
    Len(s) >= Len(prefix) /\ SubSeq(s, 1, Len(prefix)) = prefix

\* strings.TrimPrefix
TrimPrefix(s, prefix) ==
    IF HasPrefix(s, prefix) THEN SubSeq(s, Len(prefix) + 1, Len(s)) ELSE s

\* strings.Replace(s, old, "", 1): the first occurrence of old is removed
RECURSIVE RemoveFirst(_, _)
RemoveFirst(s, old) ==
    IF HasPrefix(s, old) THEN SubSeq(s, Len(old) + 1, Len(s))
    ELSE IF s = <<>> THEN s
    ELSE <<Head(s)>> \o RemoveFirst(Tail(s), old)

\* strings.Split(s, sep) for a one-character separator: the pieces between the
\* separators, so a string without separator (the empty one too) is one piece
RECURSIVE SplitFrom(_, _, _)
SplitFrom(s, sep, piece) ==
    IF s = <<>> THEN <<piece>>
    ELSE IF Head(s) = sep THEN <<piece>> \o SplitFrom(Tail(s), sep, <<>>)
    ELSE SplitFrom(Tail(s), sep, Append(piece, Head(s)))

Split(s, sep) == SplitFrom(s, sep, <<>>)

\* strings.TrimSpace
RECURSIVE TrimLeft(_)
TrimLeft(s) == IF s # <<>> /\ Head(s) = " " THEN TrimLeft(Tail(s)) ELSE s

RECURSIVE TrimRight(_)
TrimRight(s) ==
    IF s # <<>> /\ s[Len(s)] = " " THEN TrimRight(SubSeq(s, 1, Len(s) - 1)) ELSE s

TrimSpace(s) == TrimRight(TrimLeft(s))

\* ------------------------------------------------------- the file system

\* The working directory and its entries, in the order the glob lists them
WorkingDirectory == <<"/", "w">>
PathSeparator == <<"/">>

DirEntries == << <<"a">>, <<"b">>, <<"d">> >>
Directories == { <<"d">> }

Content(name) == IF name = <<"a">> THEN <<"x">> ELSE <<"y", "z">>

\* The I/O calls of collect and build that can fail, and the entry they fail on
FaultKinds == {"none", "glob", "stat", "open", "fstat", "read"}
FaultyEntry == <<"b">>

Fails(kind, name) == fault = kind /\ name = FaultyEntry

\* glob matching of a name against a pattern, "*" standing for any characters
RECURSIVE Match(_, _)
Match(pattern, name) ==
    IF pattern = <<>> THEN name = <<>>
    ELSE IF Head(pattern) = "*"
         THEN Match(Tail(pattern), name) \/ (name # <<>> /\ Match(pattern, Tail(name)))
         ELSE name # <<>> /\ Head(name) = Head(pattern)
              /\ Match(Tail(pattern), Tail(name))

SelectSeq2(seq, pattern) == SelectSeq(seq, LAMBDA n : Match(pattern, n))

\* glob.Glob(workingDirectory, globPath): the matching entries, as paths
Glob(globPath) ==
    [k \in 1..Len(SelectSeq2(DirEntries, globPath)) |->
        WorkingDirectory \o PathSeparator \o SelectSeq2(DirEntries, globPath)[k]]

\* the entry a path of the working directory names
EntryOf(absolutePath) == TrimPrefix(TrimPrefix(absolutePath, WorkingDirectory), PathSeparator)

\* sha1 of the bytes that were read, rendered with %x
Sha1Hex(bytes) == <<"#">> \o bytes

\* ---------------------------------------------- ArtifactUploader.collect

\* Lines 100-131, build: open, stat, hash, fill in the Artifact. The result of
\* io.Copy is dropped, so a failed read hashes the bytes read before it.
Build(relativePath, absolutePath, globPath) ==
    IF Fails("open", EntryOf(absolutePath)) \/ Fails("fstat", EntryOf(absolutePath))
    THEN [err |-> "io"]
    ELSE [err |-> "none",
          artifact |->
            [State |-> "new", Path |-> relativePath, AbsolutePath |-> absolutePath,
             GlobPath |-> globPath,
             FileSize |-> Len(Content(EntryOf(absolutePath))),
             Sha1Sum |-> IF Fails("read", EntryOf(absolutePath))
                         THEN Sha1Hex(<<>>)
                         ELSE Sha1Hex(Content(EntryOf(absolutePath))),
             URL |-> EmptyStr]]

\* Variant of CollectFiles: a file already in the manifest is skipped.
RECURSIVE CollectFilesDedup(_, _, _)
CollectFilesDedup(files, globPath, acc) ==
    IF files = <<>> THEN [err |-> "none", artifacts |-> acc]
    ELSE LET absolutePath == Head(files)
             relativePath == TrimPrefix(RemoveFirst(absolutePath, WorkingDirectory),
                                        PathSeparator)
             built == Build(relativePath, absolutePath, globPath)
         IN  IF Fails("stat", EntryOf(absolutePath))
             THEN [err |-> "panic", artifacts |-> <<>>]
             ELSE IF \/ EntryOf(absolutePath) \in Directories
                     \/ \E k \in 1..Len(acc) : acc[k].AbsolutePath = absolutePath
             THEN CollectFilesDedup(Tail(files), globPath, acc)
             ELSE IF built.err # "none"
             THEN [err |-> built.err, artifacts |-> <<>>]
             ELSE CollectFilesDedup(Tail(files), globPath, Append(acc, built.artifact))

\* Lines 66-93: the loop over the files of one pattern. os.Stat's error is not
\* looked at: when it fails fileInfo is nil and fileInfo.IsDir() panics.
RECURSIVE CollectFiles(_, _, _)
CollectFiles(files, globPath, acc) ==
    IF files = <<>> THEN [err |-> "none", artifacts |-> acc]
    ELSE LET absolutePath == Head(files)
             relativePath == TrimPrefix(RemoveFirst(absolutePath, WorkingDirectory),
                                        PathSeparator)
             built == Build(relativePath, absolutePath, globPath)
         IN  IF Fails("stat", EntryOf(absolutePath))
             THEN [err |-> "panic", artifacts |-> <<>>]
             ELSE IF EntryOf(absolutePath) \in Directories
             THEN CollectFiles(Tail(files), globPath, acc)
             ELSE IF built.err # "none"
             THEN [err |-> built.err, artifacts |-> <<>>]
             ELSE CollectFiles(Tail(files), globPath, Append(acc, built.artifact))

\* Lines 55-97: the loop over the patterns
RECURSIVE CollectPaths(_, _)
CollectPaths(globPaths, acc) ==
    IF globPaths = <<>> THEN [err |-> "none", artifacts |-> acc]
    ELSE LET globPath == TrimSpace(Head(globPaths))
             got == CollectFiles(Glob(globPath), globPath, acc)
         IN  IF globPath = EmptyStr THEN CollectPaths(Tail(globPaths), acc)
             ELSE IF fault = "glob" THEN [err |-> "io", artifacts |-> <<>>]
             ELSE IF got.err # "none" THEN got
             ELSE CollectPaths(Tail(globPaths), got.artifacts)

\* Lines 51-98
Collected == CollectPaths(Split(Paths, ";"), <<>>)

\* ------------------------------------------------ ArtifactUploader.Upload

S3Prefix == <<"s", "3", ":", "/", "/">>

PathsInputs ==
    { <<>>,
      <<" ", ";", " ">>,
      <<"a">>,
      <<"x">>,
      <<"d">>,
      <<" ", "a", " ", ";", "b">>,
      <<"*">>,
      <<"*", ";", "a">> }

DestinationInputs ==
    { <<>>,
      S3Prefix \o <<"b">>,
      <<"s", "3", ":", "/", "b">>,
      <<"g">> \o S3Prefix }

\* pool.MaxConcurrencyLimit, taken small enough for a manifest to exceed it
MaxConcurrencyLimit == 2

Tasks == 1..Len(artifacts)

\* the tasks the pool is executing
Active == {i \in Tasks : tpc[i] \notin {"unspawned", "queued", "done"}}

\* the tasks inside uploader.Upload
InUpload == {i \in Tasks : tpc[i] = "uploading"}

UploadInit ==
    /\ Paths \in PathsInputs
    /\ Destination \in DestinationInputs
    /\ fault \in FaultKinds
    /\ upc = "start"
    /\ result = "none"
    /\ artifacts = <<>>
    /\ uploader = "none"
    /\ setupCalls = 0 /\ setupOk = "none"
    /\ urlSet = {}
    /\ createLog = <<>>
    /\ spawned = 0
    /\ tpc = <<>>
    /\ lock = 0
    /\ errors = <<>>
    /\ uploadCalls = <<>>
    /\ uploadOk = <<>>
    /\ updLog = <<>>
    \* no job is running
    /\ jpc = "Fetched" /\ j = NewJob /\ now = 1 /\ proc = NoProcess /\ cbpc = "idle"
    /\ updatedJob = NewJob /\ tick = 0 /\ pushLog = <<>> /\ killTicks = {}
    /\ killCount = 0 /\ cancelTicks = {} /\ writes = NoWrites

\* Variant of Collect: upload is called for an empty manifest too.
CollectAlwaysUploads ==
    /\ upc = "start"
    /\ IF Collected.err = "panic"
       THEN upc' = "returned" /\ result' = "panic" /\ UNCHANGED artifacts
       ELSE IF Collected.err # "none"
       THEN upc' = "returned" /\ result' = "collectErr" /\ UNCHANGED artifacts
       ELSE upc' = "choose" /\ result' = result /\ artifacts' = Collected.artifacts
    /\ tpc' = [i \in 1..Len(artifacts') |-> "unspawned"]
    /\ uploadCalls' = [i \in 1..Len(artifacts') |-> 0]
    /\ uploadOk' = [i \in 1..Len(artifacts') |-> "none"]
    /\ updLog' = [i \in 1..Len(artifacts') |-> <<>>]
    /\ UNCHANGED <<Paths, Destination, fault, uploader, setupCalls, setupOk, urlSet, createLog,
                   spawned, lock, errors>>
    /\ UNCHANGED jobVars

\* Lines 30-49, Upload: collect; an error of collect is returned, an empty
\* manifest is success, anything else goes to upload.
Collect ==
    /\ upc = "start"
    /\ IF Collected.err = "panic"
       THEN upc' = "returned" /\ result' = "panic" /\ UNCHANGED artifacts
       ELSE IF Collected.err # "none"
       THEN upc' = "returned" /\ result' = "collectErr" /\ UNCHANGED artifacts
       ELSE IF Len(Collected.artifacts) = 0
       THEN upc' = "returned" /\ result' = "nil" /\ UNCHANGED artifacts
       ELSE upc' = "choose" /\ result' = result /\ artifacts' = Collected.artifacts
    /\ tpc' = [i \in 1..Len(artifacts') |-> "unspawned"]
    /\ uploadCalls' = [i \in 1..Len(artifacts') |-> 0]
    /\ uploadOk' = [i \in 1..Len(artifacts') |-> "none"]
    /\ updLog' = [i \in 1..Len(artifacts') |-> <<>>]
    /\ UNCHANGED <<Paths, Destination, fault, uploader, setupCalls, setupOk, urlSet, createLog,
                   spawned, lock, errors>>
    /\ UNCHANGED jobVars

\* Variant of ChooseUploader: an unknown destination falls back to the form uploader.
ChooseUploaderFallback ==
    /\ upc = "choose"
    /\ uploader' = IF HasPrefix(Destination, S3Prefix) THEN "S3" ELSE "Form"
    /\ upc' = "setup"
    /\ UNCHANGED <<Paths, Destination, fault, result, artifacts, setupCalls, setupOk, urlSet,
                   createLog, spawned, tpc, lock, errors, uploadCalls, uploadOk, updLog>>
    /\ UNCHANGED jobVars

\* Lines 136-145: the uploader is chosen from the destination
ChooseUploader ==
    /\ upc = "choose"
    /\ IF Destination # EmptyStr
       THEN IF HasPrefix(Destination, S3Prefix)
            THEN uploader' = "S3" /\ upc' = "setup" /\ result' = result
            ELSE uploader' = uploader /\ upc' = "returned" /\ result' = "configErr"
       ELSE uploader' = "Form" /\ upc' = "setup" /\ result' = result
    /\ UNCHANGED <<Paths, Destination, fault, artifacts, setupCalls, setupOk, urlSet, createLog,
                   spawned, tpc, lock, errors, uploadCalls, uploadOk, updLog>>
    /\ UNCHANGED jobVars

\* Variant of Setup: a failed Setup is not returned.
SetupIgnoresFailure(ok) ==
    /\ upc = "setup"
    /\ setupCalls' = setupCalls + 1
    /\ setupOk' = IF ok THEN "ok" ELSE "failed"
    /\ upc' = "urls"
    /\ UNCHANGED <<Paths, Destination, fault, result, artifacts, uploader, urlSet,
                   createLog, spawned, tpc, lock, errors, uploadCalls, uploadOk, updLog>>
    /\ UNCHANGED jobVars

\* Lines 147-151: uploader.Setup
Setup(ok) ==
    /\ upc = "setup"
    /\ setupCalls' = setupCalls + 1
    /\ setupOk' = IF ok THEN "ok" ELSE "failed"
    /\ IF ok THEN upc' = "urls" /\ result' = result
             ELSE upc' = "returned" /\ result' = "setupErr"
    /\ UNCHANGED <<Paths, Destination, fault, artifacts, uploader, urlSet, createLog,
                   spawned, tpc, lock, errors, uploadCalls, uploadOk, updLog>>
    /\ UNCHANGED jobVars

\* uploader.URL(artifact)
URLOf(artifact) == <<uploader>> \o PathSeparator \o artifact.Path

\* Lines 153-156: every artifact gets its URL
AssignURLs ==
    /\ upc = "urls"
    /\ artifacts' = [i \in Tasks |-> [artifacts[i] EXCEPT !.URL = URLOf(artifacts[i])]]
    /\ urlSet' = Tasks
    /\ upc' = "create"
    /\ UNCHANGED <<Paths, Destination, fault, result, uploader, setupCalls, setupOk, createLog,
                   spawned, tpc, lock, errors, uploadCalls, uploadOk, updLog>>
    /\ UNCHANGED jobVars

\* Variant of Create: a failed registration is not returned.
CreateIgnoresFailure(ok) ==
    /\ upc = "create"
    /\ createLog' = Append(createLog, [ok |-> ok, Artifacts |-> artifacts,
                                        withURL |-> urlSet])
    /\ upc' = "spawn"
    /\ UNCHANGED <<Paths, Destination, fault, result, artifacts, uploader, setupCalls, setupOk,
                   urlSet, spawned, tpc, lock, errors, uploadCalls, uploadOk, updLog>>
    /\ UNCHANGED jobVars

\* Lines 158-167: the batch is registered; a failure is returned
Create(ok) ==
    /\ upc = "create"
    /\ createLog' = Append(createLog, [ok |-> ok, Artifacts |-> artifacts,
                                        withURL |-> urlSet])
    /\ IF ok THEN upc' = "spawn" /\ result' = result
             ELSE upc' = "returned" /\ result' = "createErr"
    /\ UNCHANGED <<Paths, Destination, fault, artifacts, uploader, setupCalls, setupOk, urlSet,
                   spawned, tpc, lock, errors, uploadCalls, uploadOk, updLog>>
    /\ UNCHANGED jobVars

\* Variant of Spawn: the task is started at once, outside the pool.
SpawnOutsidePool ==
    /\ upc = "spawn"
    /\ IF spawned < Len(artifacts)
       THEN /\ spawned' = spawned + 1
            /\ tpc' = [tpc EXCEPT ![spawned + 1] = "uploading"]
            /\ uploadCalls' = [uploadCalls EXCEPT ![spawned + 1] = @ + 1]
            /\ upc' = upc
       ELSE /\ upc' = "wait"
            /\ UNCHANGED <<spawned, tpc, uploadCalls>>
    /\ UNCHANGED <<Paths, Destination, fault, result, artifacts, uploader, setupCalls, setupOk,
                   urlSet, createLog, lock, errors, uploadOk, updLog>>
    /\ UNCHANGED jobVars

\* Lines 172-207: p.Spawn hands the next artifact's task to the pool and
\* returns; after the last one upload goes on to p.Wait.
Spawn ==
    /\ upc = "spawn"
    /\ IF spawned < Len(artifacts)
       THEN /\ spawned' = spawned + 1
            /\ tpc' = [tpc EXCEPT ![spawned + 1] = "queued"]
            /\ upc' = upc
       ELSE /\ upc' = "wait"
            /\ UNCHANGED <<spawned, tpc>>
    /\ UNCHANGED <<Paths, Destination, fault, result, artifacts, uploader, setupCalls, setupOk,
                   urlSet, createLog, lock, errors, uploadCalls, uploadOk, updLog>>
    /\ UNCHANGED jobVars

\* The pool starts a queued task when fewer than its limit are executing; the
\* task goes straight into uploader.Upload (line 183).
TaskStart(i) ==
    /\ i \in Tasks
    /\ tpc[i] = "queued"
    /\ Cardinality(Active) < MaxConcurrencyLimit
    /\ tpc' = [tpc EXCEPT ![i] = "uploading"]
    /\ uploadCalls' = [uploadCalls EXCEPT ![i] = @ + 1]
    /\ UNCHANGED <<Paths, Destination, fault, upc, result, artifacts, uploader,
                   setupCalls, setupOk, urlSet, createLog, spawned, lock, errors, uploadOk,
                   updLog>>
    /\ UNCHANGED jobVars

\* Variant of UploadReturn: a failed upload drops the tasks still queued.
UploadReturnFailFast(i, ok) ==
    /\ i \in Tasks
    /\ tpc[i] = "uploading"
    /\ uploadOk' = [uploadOk EXCEPT ![i] = IF ok THEN "ok" ELSE "failed"]
    /\ artifacts' = [artifacts EXCEPT ![i].State = IF ok THEN "finished" ELSE "error"]
    /\ tpc' = [k \in Tasks |-> IF k = i THEN (IF ok THEN "update" ELSE "lock1")
                               ELSE IF ~ok /\ tpc[k] = "queued" THEN "done"
                               ELSE tpc[k]]
    /\ UNCHANGED <<Paths, Destination, fault, upc, result, uploader, setupCalls, setupOk, urlSet,
                   createLog, spawned, lock, errors, uploadCalls, updLog>>
    /\ UNCHANGED jobVars

\* Lines 183-194: uploader.Upload returns and the artifact's State is set
UploadReturn(i, ok) ==
    /\ i \in Tasks
    /\ tpc[i] = "uploading"
    /\ uploadOk' = [uploadOk EXCEPT ![i] = IF ok THEN "ok" ELSE "failed"]
    /\ artifacts' = [artifacts EXCEPT ![i].State = IF ok THEN "finished" ELSE "error"]
    /\ tpc' = [tpc EXCEPT ![i] = IF ok THEN "update" ELSE "lock1"]
    /\ UNCHANGED <<Paths, Destination, fault, upc, result, uploader, setupCalls, setupOk, urlSet,
                   createLog, spawned, lock, errors, uploadCalls, updLog>>
    /\ UNCHANGED jobVars

\* Lines 189 and 202: p.Lock()
Lock(i) ==
    /\ i \in Tasks
    /\ tpc[i] \in {"lock1", "lock2"}
    /\ lock = 0
    /\ lock' = i
    /\ tpc' = [tpc EXCEPT ![i] = IF tpc[i] = "lock1" THEN "append1" ELSE "append2"]
    /\ UNCHANGED <<Paths, Destination, fault, upc, result, artifacts, uploader,
                   setupCalls, setupOk, urlSet, createLog, spawned, errors, uploadCalls,
                   uploadOk, updLog>>
    /\ UNCHANGED jobVars

\* Variant of AppendError: the lock is not released after the append.
AppendErrorKeepsLock(i) ==
    /\ i \in Tasks
    /\ tpc[i] \in {"append1", "append2"}
    /\ errors' = Append(errors, <<IF tpc[i] = "append1" THEN "upload" ELSE "update", i>>)
    /\ lock' = lock
    /\ tpc' = [tpc EXCEPT ![i] = IF tpc[i] = "append1" THEN "update" ELSE "done"]
    /\ UNCHANGED <<Paths, Destination, fault, upc, result, artifacts, uploader,
                   setupCalls, setupOk, urlSet, createLog, spawned, uploadCalls, uploadOk,
                   updLog>>
    /\ UNCHANGED jobVars

\* Variant of AppendError: the task ends after recording an error.
AppendErrorSkipsUpdate(i) ==
    /\ i \in Tasks
    /\ tpc[i] \in {"append1", "append2"}
    /\ errors' = Append(errors, <<IF tpc[i] = "append1" THEN "upload" ELSE "update", i>>)
    /\ lock' = 0
    /\ tpc' = [tpc EXCEPT ![i] = "done"]
    /\ UNCHANGED <<Paths, Destination, fault, upc, result, artifacts, uploader,
                   setupCalls, setupOk, urlSet, createLog, spawned, uploadCalls, uploadOk,
                   updLog>>
    /\ UNCHANGED jobVars

\* Lines 190-191 and 203-204: the error is appended and the lock released
AppendError(i) ==
    /\ i \in Tasks
    /\ tpc[i] \in {"append1", "append2"}
    /\ errors' = Append(errors, <<IF tpc[i] = "append1" THEN "upload" ELSE "update", i>>)
    /\ lock' = 0
    /\ tpc' = [tpc EXCEPT ![i] = IF tpc[i] = "append1" THEN "update" ELSE "done"]
    /\ UNCHANGED <<Paths, Destination, fault, upc, result, artifacts, uploader,
                   setupCalls, setupOk, urlSet, createLog, spawned, uploadCalls, uploadOk,
                   updLog>>
    /\ UNCHANGED jobVars

\* Line 197: artifact.Update() sends the artifact's State to the server
UpdateCall(i) ==
    /\ i \in Tasks
    /\ tpc[i] = "update"
    /\ updLog' = [updLog EXCEPT ![i] = Append(@, [State |-> artifacts[i].State,
                                                    afterUploads |-> uploadCalls[i],
                                                    ok |-> "pending"])]
    /\ tpc' = [tpc EXCEPT ![i] = "updating"]
    /\ UNCHANGED <<Paths, Destination, fault, upc, result, artifacts, uploader,
                   setupCalls, setupOk, urlSet, createLog, spawned, lock, errors, uploadCalls,
                   uploadOk>>
    /\ UNCHANGED jobVars

\* Variant of UpdateReturn: a failed status push is logged but not recorded.
UpdateReturnDropsError(i, ok) ==
    /\ i \in Tasks
    /\ tpc[i] = "updating"
    /\ tpc' = [tpc EXCEPT ![i] = "done"]
    /\ updLog' = [updLog EXCEPT ![i][Len(updLog[i])].ok = IF ok THEN "ok" ELSE "failed"]
    /\ UNCHANGED <<Paths, Destination, fault, upc, result, artifacts, uploader,
                   setupCalls, setupOk, urlSet, createLog, spawned, lock, errors, uploadCalls,
                   uploadOk>>
    /\ UNCHANGED jobVars

\* Lines 197-205: artifact.Update() returns
UpdateReturn(i, ok) ==
    /\ i \in Tasks
    /\ tpc[i] = "updating"
    /\ tpc' = [tpc EXCEPT ![i] = IF ok THEN "done" ELSE "lock2"]
    /\ updLog' = [updLog EXCEPT ![i][Len(updLog[i])].ok = IF ok THEN "ok" ELSE "failed"]
    /\ UNCHANGED <<Paths, Destination, fault, upc, result, artifacts, uploader,
                   setupCalls, setupOk, urlSet, createLog, spawned, lock, errors, uploadCalls,
                   uploadOk>>
    /\ UNCHANGED jobVars

\* Variant of Wait: the error list is not looked at.
WaitIgnoresErrors ==
    /\ upc = "wait"
    /\ \A i \in Tasks : tpc[i] = "done"
    /\ upc' = "returned"
    /\ result' = "nil"
    /\ UNCHANGED <<Paths, Destination, fault, artifacts, uploader, setupCalls, setupOk, urlSet,
                   createLog, spawned, tpc, lock, errors, uploadCalls, uploadOk, updLog>>
    /\ UNCHANGED jobVars

\* Lines 209-216: p.Wait() returns when every task has completed; with errors
\* recorded logger.Fatal ends the process, otherwise upload returns nil.
Wait ==
    /\ upc = "wait"
    /\ \A i \in Tasks : tpc[i] = "done"
    /\ upc' = "returned"
    /\ result' = IF Len(errors) > 0 THEN "fatal" ELSE "nil"
    /\ UNCHANGED <<Paths, Destination, fault, artifacts, uploader, setupCalls, setupOk, urlSet,
                   createLog, spawned, tpc, lock, errors, uploadCalls, uploadOk, updLog>>
    /\ UNCHANGED jobVars

UploadNext ==
    \/ Collect
    \/ ChooseUploader
    \/ \E ok \in BOOLEAN : Setup(ok)
    \/ AssignURLs
    \/ \E ok \in BOOLEAN : Create(ok)
    \/ Spawn
    \/ \E i \in Tasks : TaskStart(i)
    \/ \E i \in Tasks, ok \in BOOLEAN : UploadReturn(i, ok)
    \/ \E i \in Tasks : Lock(i)
    \/ \E i \in Tasks : AppendError(i)
    \/ \E i \in Tasks : UpdateCall(i)
    \/ \E i \in Tasks, ok \in BOOLEAN : UpdateReturn(i, ok)
    \/ Wait

UploadSpec == UploadInit /\ [][UploadNext]_vars

JobSpec == JobInit /\ [][JobNext]_vars

\* Run is a running program: a callback that has pushed goes on to its check,
\* RunScript returns once it can, and Run goes on to finalize.
JobFairSpec ==
    /\ JobSpec
    /\ WF_vars(CallbackCheck)
    /\ WF_vars(RunScriptReturn)
    /\ WF_vars(\E ok \in BOOLEAN, nilProcess \in BOOLEAN : Finalize(ok, nilProcess))

\* ------------------------------------------------------------ properties

\* upload got past batch registration: the pool was created and is being,
\* or was, populated
Registered == Len(createLog) > 0 /\ createLog[Len(createLog)].ok

\* Wait has returned and upload took its decision
AfterWait == upc = "returned" /\ result \in {"nil", "fatal"} /\ Len(artifacts) > 0

UploadFailures == {i \in Tasks : uploadOk[i] = "failed"}
UpdateFailures == {i \in Tasks : \E k \in 1..Len(updLog[i]) : updLog[i][k].ok = "failed"}

\* C1: at every moment of upload, the number of tasks inside the transport's
\* Upload call is at most pool.MaxConcurrencyLimit, whatever the manifest size.
C1_UploadsWithinLimit == Cardinality(InUpload) <= MaxConcurrencyLimit

\* The limit is reached while a further task is waiting for a slot.
C1_Witness ==
    /\ Cardinality(InUpload) = MaxConcurrencyLimit
    /\ \E i \in Tasks : tpc[i] = "queued"

\* C2: once batch registration succeeded, Upload is invoked exactly once for
\* every artifact: never twice, and once Wait has returned no artifact was
\* skipped, whatever the outcomes of the sibling uploads and status pushes.
C2_EveryArtifactUploadedOnce ==
    /\ \A i \in Tasks : uploadCalls[i] <= 1
    /\ (Registered /\ upc = "returned") => \A i \in Tasks : uploadCalls[i] = 1

\* A batch of three where one upload failed, another artifact's status push
\* failed, and all three were uploaded once.
C2_Witness ==
    /\ AfterWait
    /\ Len(artifacts) = 3
    /\ UploadFailures # {}
    /\ UpdateFailures \ UploadFailures # {}
    /\ \A i \in Tasks : uploadCalls[i] = 1

\* C3: after Wait has returned every artifact's State is "finished" exactly
\* when its Upload succeeded and "error" exactly when it failed, never "new",
\* and exactly one status push was sent for it, after its upload attempt and
\* carrying that final State; before that no artifact has more than one push
\* and no push precedes the artifact's upload.
C3_FinalStateAndOnePush ==
    /\ \A i \in Tasks :
         /\ Len(updLog[i]) <= 1
         /\ \A k \in 1..Len(updLog[i]) :
              /\ updLog[i][k].afterUploads = 1
              /\ uploadOk[i] # "none"
              /\ updLog[i][k].State = artifacts[i].State
    /\ AfterWait =>
         \A i \in Tasks :
           /\ artifacts[i].State = "finished" <=> uploadOk[i] = "ok"
           /\ artifacts[i].State = "error" <=> uploadOk[i] = "failed"
           /\ artifacts[i].State # "new"
           /\ Len(updLog[i]) = 1
           /\ updLog[i][1].State = artifacts[i].State

\* Scenario B: one of three uploads failed; its artifact was pushed as "error",
\* the other two as "finished".
C3_Witness ==
    /\ AfterWait
    /\ Len(artifacts) = 3
    /\ Cardinality(UploadFailures) = 1
    /\ \A i \in Tasks :
         updLog[i] # <<>> /\ updLog[i][1].State = (IF i \in UploadFailures
                                                   THEN "error" ELSE "finished")

\* the manifest as it was before any task changed a State
AsCollected(manifest) == [i \in 1..Len(manifest) |-> [manifest[i] EXCEPT !.State = "new"]]

\* C4: batch registration is called at most once, and exactly once in every
\* run that spawns a task, uploads or pushes a status: with the entire manifest,
\* every artifact carrying the URL the uploader gave it, and completed
\* successfully before the first task is spawned.
C4_RegisteredOnceBeforeUploads ==
    /\ Len(createLog) <= 1
    /\ (\/ spawned > 0
        \/ upc = "wait"
        \/ \E i \in Tasks : uploadCalls[i] > 0 \/ updLog[i] # <<>> \/ tpc[i] # "unspawned")
       => /\ Len(createLog) = 1
          /\ createLog[1].ok
          /\ createLog[1].Artifacts = AsCollected(artifacts)
          /\ createLog[1].withURL = Tasks
          /\ \A i \in Tasks : /\ createLog[1].Artifacts[i].URL = URLOf(artifacts[i])
                              /\ createLog[1].Artifacts[i].URL # EmptyStr

\* Uploads are running after the one registration of a three-artifact manifest.
C4_Witness ==
    /\ Len(createLog) = 1
    /\ Len(artifacts) = 3
    /\ InUpload # {}
    /\ \E i \in Tasks : updLog[i] # <<>>

UnrecognizedDestination ==
    /\ Destination # EmptyStr
    /\ ~(Len(Destination) >= 5 /\ SubSeq(Destination, 1, 5) = <<"s", "3", ":", "/", "/">>)

\* C5: with a non-empty Destination that does not start with "s3://", the
\* upload phase (entered with a non-empty manifest) does nothing external: no
\* Setup, no URL, no registration, no task, no Upload, no status push; and it
\* ends by handing the configuration error to the caller.
C5_ConfigErrorBeforeAnyActivity ==
    (UnrecognizedDestination /\ Len(artifacts) > 0) =>
        /\ uploader = "none"
        /\ setupCalls = 0 /\ setupOk = "none"
        /\ urlSet = {}
        /\ \A i \in Tasks : artifacts[i].URL = EmptyStr
        /\ createLog = <<>>
        /\ spawned = 0
        /\ \A i \in Tasks : uploadCalls[i] = 0 /\ updLog[i] = <<>> /\ tpc[i] = "unspawned"
        /\ upc \in {"choose", "returned"}
        /\ upc = "returned" => result = "configErr"

\* The near miss "s3:/b" with a collected manifest was refused.
C5_Witness ==
    /\ Destination = <<"s", "3", ":", "/", "b">>
    /\ Len(artifacts) > 0
    /\ upc = "returned"
    /\ result = "configErr"

\* C6: upload signals overall failure exactly when an Upload call or a status
\* push of the batch failed, and success exactly when none did; either
\* decision is taken only when every spawned task has completed, and the
\* error list then holds something exactly when one of them failed.
C6_FailureIffSomeTaskFailed ==
    /\ result = "fatal" => AfterWait
    /\ (Registered /\ upc # "returned") => result = "none"
    /\ (Registered /\ upc = "returned") =>
         /\ \A i \in Tasks : tpc[i] = "done" /\ uploadOk[i] # "none"
                             /\ updLog[i] # <<>> /\ updLog[i][1].ok # "pending"
         /\ result = "fatal" <=> (UploadFailures \cup UpdateFailures) # {}
         /\ result = "nil" <=> (UploadFailures \cup UpdateFailures) = {}
         /\ Len(errors) > 0 <=> (UploadFailures \cup UpdateFailures) # {}

\* The only failure of the batch was one status push, and upload failed.
C6_Witness ==
    /\ AfterWait
    /\ UploadFailures = {}
    /\ Cardinality(UpdateFailures) = 1
    /\ result = "fatal"

\* C7: whenever a running-phase push was answered with State "canceled", Kill
\* was invoked on that tick: the only canceled answer without its Kill is the
\* one of the tick still in progress, so there is none once a later tick has
\* begun or Run has moved on to Finalizing.
C7_KillOnCanceledTick ==
    \A t \in cancelTicks :
        \/ t \in killTicks
        \/ (t = tick /\ cbpc = "pushed" /\ jpc = "Running")

\* A canceled job was killed on the tick that saw it and went on to Done.
C7_Witness ==
    /\ jpc = "Done"
    /\ cancelTicks = {2}
    /\ killTicks = {2}
    /\ proc.ExitStatus = KilledExit

FirstCanceledTick == {t \in cancelTicks : \A u \in cancelTicks : t <= u}

\* C8 as stated: Kill is invoked on one tick only, the first whose answer is
\* "canceled", and never again afterwards.
C8_KillOnFirstCanceledTickOnly ==
    /\ killTicks \subseteq FirstCanceledTick
    /\ killCount <= 1

\* C8 amended: Kill is invoked once on each tick whose answer is "canceled"
\* and on no other tick: not before the first such answer, never when no
\* answer is "canceled", and again on every later tick that is answered
\* "canceled" while the process is still alive.
C8_KillOnEveryCanceledTick ==
    /\ killTicks \subseteq cancelTicks
    /\ killCount = Cardinality(killTicks)
    /\ \A t \in killTicks : \A u \in 1..(t - 1) : u \notin cancelTicks => u \notin killTicks
    /\ cancelTicks = {} => killCount = 0
    /\ cbpc = "idle" => killTicks = cancelTicks

\* Ticks 2 and 3 were both answered "canceled" and Kill was invoked on both,
\* not on tick 1.
C8_Witness ==
    /\ tick = 3
    /\ cancelTicks = {2, 3}
    /\ killTicks = {2, 3}
    /\ killCount = 2

TickPushFailures == {k \in 1..Len(pushLog) : pushLog[k].kind = "tick" /\ ~pushLog[k].ok}

\* C9: a failed push of a tick ends the agent on that tick: it is the last
\* request ever sent, the callback does not go on, and the job is not
\* finalized (FinishedAt and ExitStatus stay empty, no final push).
C9_FailedTickPushIsFatal ==
    /\ \A k \in TickPushFailures :
         /\ k = Len(pushLog)
         /\ pushLog[k].tick = tick
         /\ jpc = "Fatal"
         /\ cbpc = "idle"
    /\ jpc = "Fatal" =>
         /\ TickPushFailures # {}
         /\ j.FinishedAt = EmptyStr
         /\ j.ExitStatus = EmptyStr
         /\ \A k \in 1..Len(pushLog) : pushLog[k].kind # "final"

\* The second tick's push failed after the first one went through.
C9_Witness ==
    /\ jpc = "Fatal"
    /\ tick = 2
    /\ pushLog[Len(pushLog)].kind = "tick"
    /\ ~pushLog[Len(pushLog)].ok

\* C10: StartedAt is stamped and pushed, once, before the process is launched,
\* and the run goes on whatever that push returned: no state past Started is
\* reached without the launch having been attempted.
C10_StartPushedBeforeLaunchBestEffort ==
    /\ Cardinality({k \in 1..Len(pushLog) : pushLog[k].kind = "start"}) <= 1
    /\ (jpc # "Fetched" \/ proc.status # "none") =>
         /\ Len(pushLog) >= 1
         /\ pushLog[1].kind = "start"
         /\ "StartedAt" \in DOMAIN pushLog[1].body
         /\ pushLog[1].body.StartedAt = j.StartedAt
         /\ j.StartedAt # EmptyStr
    /\ jpc = "Started" => proc.status = "none"
    /\ jpc \notin {"Fetched", "Started"} => proc.status # "none"
    /\ jpc = "Done" => /\ pushLog[Len(pushLog)].kind = "final"
                       /\ j.FinishedAt # EmptyStr

\* The start push failed and the job still ran, ticked and reached Done.
C10_Witness ==
    /\ jpc = "Done"
    /\ ~pushLog[1].ok
    /\ proc.status = "exited"
    /\ tick >= 1
    /\ Len(pushLog) >= 3

C12_EarlyPushesOmitFinishFields ==
    \A k \in 1..Len(pushLog) :
        /\ "StartedAt" \in DOMAIN pushLog[k].body
        /\ pushLog[k].body.StartedAt # EmptyStr
        /\ pushLog[k].kind \in {"start", "tick"} =>
              /\ "FinishedAt" \notin DOMAIN pushLog[k].body
              /\ "ExitStatus" \notin DOMAIN pushLog[k].body
        /\ pushLog[k].kind = "final" =>
              /\ k = Len(pushLog)
              /\ "FinishedAt" \in DOMAIN pushLog[k].body
              /\ "ExitStatus" \in DOMAIN pushLog[k].body
              /\ pushLog[k].body.ExitStatus = FormatInt(proc.ExitStatus)

\* The start push, two tick pushes and the final push of a process that
\* exited with status 0.
C12_Witness ==
    /\ jpc = "Done"
    /\ Len(pushLog) = 4
    /\ proc.status = "exited"
    /\ proc.ExitStatus = 0
    /\ pushLog[4].body.ExitStatus = <<"0">>

\* C13: when the process cannot be launched no tick fires and Run does not
\* crash: it ends in Done with the launch error as Output, FinishedAt stamped,
\* ExitStatus still empty, and the final update pushed without ExitStatus.
C13_LaunchFailureFinalizes ==
    proc.status = "failed" =>
        /\ tick = 0
        /\ jpc \in {"Finalizing", "Done"}
        /\ jpc = "Done" =>
              /\ j.Output = LaunchErrorText
              /\ j.FinishedAt # EmptyStr
              /\ j.ExitStatus = EmptyStr
              /\ pushLog[Len(pushLog)].kind = "final"
              /\ "ExitStatus" \notin DOMAIN pushLog[Len(pushLog)].body

FinalPushes == {k \in 1..Len(pushLog) : pushLog[k].kind = "final"}

\* C14: once the process has exited, with no tick push failed, Run reaches
\* Done; in Done FinishedAt is stamped and exactly one final update was
\* pushed, as the last request, carrying the final Output, ExitStatus and
\* FinishedAt, whether or not that push went through.
C14_ExitedRunReachesDone ==
    /\ [](jpc = "Done" =>
            /\ j.FinishedAt # EmptyStr
            /\ FinalPushes = {Len(pushLog)}
            /\ pushLog[Len(pushLog)].body = Marshal(j)
            /\ pushLog[Len(pushLog)].body.FinishedAt = j.FinishedAt
            /\ proc.status = "exited" =>
                  /\ j.Output = proc.Output
                  /\ j.ExitStatus = FormatInt(proc.ExitStatus)
                  /\ pushLog[Len(pushLog)].body.ExitStatus = FormatInt(proc.ExitStatus))
    /\ ((proc.status = "exited" /\ TickPushFailures = {}) ~> (jpc = "Done"))

\* A killed process exited and Run reached Done although the final push failed.
C14_Witness ==
    /\ jpc = "Done"
    /\ proc.status = "exited"
    /\ proc.killed
    /\ ~pushLog[Len(pushLog)].ok
    /\ pushLog[Len(pushLog)].kind = "final"

\* the patterns of Paths, trimmed
Patterns == [k \in 1..Len(Split(Paths, ";")) |-> TrimSpace(Split(Paths, ";")[k])]

AllEntries == {DirEntries[n] : n \in 1..Len(DirEntries)}
RegularEntries == AllEntries \ Directories

FaultyEntryMatched ==
    \E k \in DOMAIN Patterns : Patterns[k] # EmptyStr /\ Match(Patterns[k], FaultyEntry)

NoTransportActivity ==
    /\ uploader = "none"
    /\ setupCalls = 0
    /\ createLog = <<>>
    /\ spawned = 0
    /\ errors = <<>>
    /\ \A i \in Tasks : uploadCalls[i] = 0 /\ updLog[i] = <<>>

\* C15: when stat, open or the hashing read of a matched file fails, collect
\* returns the error and no manifest, and Upload returns it without any setup,
\* registration, upload or status push.
C15_CollectionAllOrNothing ==
    (fault \in {"stat", "open", "fstat", "read"} /\ FaultyEntryMatched /\ upc # "start") =>
        /\ upc = "returned"
        /\ result = "collectErr"
        /\ artifacts = <<>>
        /\ NoTransportActivity

\* C16: without I/O error collect fails for no pattern list, and the manifest
\* holds, for every pattern p and entry f, as many artifacts tagged p for f as
\* p occurs among the non-blank trimmed patterns when f is a regular file that
\* p matches, and none otherwise; they are in state "new" when collect returns.
C16_OneArtifactPerPatternAndFile ==
    (fault = "none" /\ upc # "start") =>
        /\ result \notin {"collectErr", "panic"}
        /\ \A i \in Tasks :
              /\ artifacts[i].Path \in RegularEntries
              /\ artifacts[i].GlobPath # EmptyStr
              /\ \E k \in DOMAIN Patterns : Patterns[k] = artifacts[i].GlobPath
              /\ upc = "choose" => artifacts[i].State = "new"
        /\ \A k \in DOMAIN Patterns : \A f \in AllEntries :
              Cardinality({i \in Tasks : artifacts[i].GlobPath = Patterns[k]
                                         /\ artifacts[i].Path = f})
              = IF Patterns[k] # EmptyStr /\ f \in RegularEntries /\ Match(Patterns[k], f)
                THEN Cardinality({l \in DOMAIN Patterns : Patterns[l] = Patterns[k]})
                ELSE 0

\* "*;a": the file a is in the manifest twice, once for each pattern, next to
\* b; the directory d is not.
C16_Witness ==
    /\ upc = "choose"
    /\ Len(artifacts) = 3
    /\ \E i, k \in Tasks : /\ artifacts[i].Path = <<"a">> /\ artifacts[i].GlobPath = <<"*">>
                           /\ artifacts[k].Path = <<"a">> /\ artifacts[k].GlobPath = <<"a">>

Appending == {i \in Tasks : tpc[i] \in {"append1", "append2"}}

\* C17: the pool's lock is held exactly by a task that is appending to the
\* error list: never by a task inside Upload or inside the status push, and
\* at most one task is appending.
C17_LockHeldOnlyToAppend ==
    /\ lock # 0 => lock \in Appending
    /\ \A i \in Appending : lock = i
    /\ Cardinality(Appending) <= 1
    /\ \A i \in Tasks : tpc[i] \in {"uploading", "update", "updating"} => lock # i

\* One task appends a failed status push while another is inside Upload.
C17_Witness ==
    /\ lock # 0
    /\ tpc[lock] = "append2"
    /\ \E i \in Tasks : tpc[i] = "uploading"

Recorded(kind, i) == {k \in 1..Len(errors) : errors[k] = <<kind, i>>}

\* C18: the error list never holds an entry for a call that did not fail nor
\* two entries for one call, and once Wait has returned it holds one entry for
\* every failed Upload and one for every failed status push; the decision that
\* reads it is taken only when all tasks have completed.
C18_ErrorListComplete ==
    /\ \A k \in 1..Len(errors) :
          /\ errors[k][2] \in Tasks
          /\ errors[k][1] = "upload" => errors[k][2] \in UploadFailures
          /\ errors[k][1] = "update" => errors[k][2] \in UpdateFailures
    /\ \A i \in Tasks : Cardinality(Recorded("upload", i)) <= 1
                        /\ Cardinality(Recorded("update", i)) <= 1
    /\ (Registered /\ upc = "returned") =>
          /\ \A i \in Tasks : tpc[i] = "done"
          /\ \A i \in UploadFailures : Cardinality(Recorded("upload", i)) = 1
          /\ \A i \in UpdateFailures : Cardinality(Recorded("update", i)) = 1
          /\ Len(errors) = Cardinality(UploadFailures) + Cardinality(UpdateFailures)

\* An artifact whose upload and status push both failed left two entries,
\* next to the entry of another artifact.
C18_Witness ==
    /\ AfterWait
    /\ Len(errors) = 3
    /\ \E i \in Tasks : i \in UploadFailures /\ i \in UpdateFailures

NoTaskStarted ==
    /\ spawned = 0
    /\ errors = <<>>
    /\ \A i \in Tasks : /\ tpc[i] = "unspawned"
                        /\ uploadCalls[i] = 0
                        /\ updLog[i] = <<>>
                        /\ artifacts[i].State = "new"

\* C19: a failed Setup or a failed registration is returned at once: no task
\* is spawned, nothing is uploaded or pushed and every State stays "new";
\* after a failed Setup no URL was assigned and nothing was registered.
C19_SetupOrCreateFailureReturned ==
    /\ setupOk = "failed" =>
          /\ upc = "returned"
          /\ result = "setupErr"
          /\ urlSet = {}
          /\ \A i \in Tasks : artifacts[i].URL = EmptyStr
          /\ createLog = <<>>
          /\ NoTaskStarted
    /\ (createLog # <<>> /\ ~createLog[1].ok) =>
          /\ upc = "returned"
          /\ result = "createErr"
          /\ Len(createLog) = 1
          /\ NoTaskStarted

\* The registration of three artifacts with their URLs failed.
C19_Witness ==
    /\ result = "createErr"
    /\ Len(artifacts) = 3
    /\ urlSet = Tasks
    /\ setupOk = "ok"

\* C20: when collect yields an empty manifest Upload returns success without
\* choosing a transport and without Setup, registration, Upload or status
\* push, whatever the Destination.
C20_EmptyManifestIsSuccess ==
    (upc # "start" /\ Collected.err = "none" /\ Collected.artifacts = <<>>) =>
        /\ upc = "returned"
        /\ result = "nil"
        /\ artifacts = <<>>
        /\ NoTransportActivity

\* Only the directory matched and the destination has an unknown scheme.
C20_Witness ==
    /\ Paths = <<"d">>
    /\ UnrecognizedDestination
    /\ upc = "returned"
    /\ result = "nil"

====
